---- MODULE Spec2Model ----
(***************************************************************************)
(* ModelOptQuantizer (diffusers/quantizers/modelopt/modelopt_quantizer.py) *)
(* as a state machine: the adapter's fields, the quantization              *)
(* configuration it shares with the host, and one action per hook.         *)
(***************************************************************************)
EXTENDS Integers, Sequences, FiniteSets, TLC

VARIABLES
    pre_quantized,           \* self.pre_quantized (set by the host, read-only here)
    quantization_config,     \* self.quantization_config: quant_type, algorithm, modules_to_not_convert
    init_modules_to_not_convert, \* history: the configuration's exclusions at construction
    offload,                 \* self.offload: "unset" before validate_environment, then "True" or "False"
    modules_to_not_convert,  \* self.modules_to_not_convert: unset, the configuration's own list, or a list of its own
    model,                   \* the module tree the host passes to the per-parameter hooks
    op,                      \* the hook that ran last
    args,                    \* its arguments
    ret,                     \* its return value
    err,                     \* the exception it raised, or "none"
    effects                  \* the calls it made on collaborators, in order

vars == <<pre_quantized, quantization_config, init_modules_to_not_convert, offload,
          modules_to_not_convert, model, op, args, ret, err, effects>>

----------------------------------------------------------------------------
(* Bounds *)

MaxKeys == 2        \* entries of a device map
MaxNodes == 3       \* modules of a model tree
MaxLen == 2         \* length of an exclusion list
MaxKeep == 1        \* length of keep_in_fp32_modules

----------------------------------------------------------------------------
(* Strings that the code searches are sequences of characters *)

S_weight == <<"w", "e", "i", "g", "h", "t">>
S_bias == <<"b", "i", "a", "s">>
S_in_proj_weight == <<"i", "n", "_", "p", "r", "o", "j", "_">> \o S_weight

LeafNames == {S_weight, S_bias, S_in_proj_weight}

\* Python's `sub in s` on strings
StrContains(sub, s) ==
    \E i \in 1..(Len(s) - Len(sub) + 1) : SubSeq(s, i, i + Len(sub) - 1) = sub

----------------------------------------------------------------------------
(* validate_environment *)

Targets == {"cpu", "disk", "cuda:0"}

\* device_map as the host passes it: absent/None, a strategy string, or a dict
\* (only its values are read, so its keys are 1..k)
DictMaps == UNION {[1..k -> Targets] : k \in 0..MaxKeys}
DeviceMaps == {[kind |-> "none", map |-> <<>>], [kind |-> "str", map |-> <<>>]}
              \cup {[kind |-> "dict", map |-> m] : m \in DictMaps}

\* device_map.values()
Values(m) == {m[k] : k \in DOMAIN m}

\* is_nvidia_modelopt_available() and is_nvidia_modelopt_version(">=", "0.25.0")
Backends == {"ok", "missing", "old"}

\* Mutant: the test on line 57 forgets "disk"
ValidateEnvironmentResult_cpu_only(backend, device_map, self_offload) ==
    IF backend # "ok" THEN [offload |-> self_offload, err |-> "ImportError"]
    ELSE IF device_map.kind = "dict" /\ "cpu" \in Values(device_map.map)
         THEN IF pre_quantized
              THEN [offload |-> "False", err |-> "ValueError"]
              ELSE [offload |-> "True", err |-> "none"]
         ELSE [offload |-> "False", err |-> "none"]

\* Mutant: line 53 (self.offload = False) is missing
ValidateEnvironmentResult_no_reset(backend, device_map, self_offload) ==
    IF backend # "ok" THEN [offload |-> self_offload, err |-> "ImportError"]
    ELSE IF device_map.kind = "dict"
            /\ ("cpu" \in Values(device_map.map) \/ "disk" \in Values(device_map.map))
         THEN IF pre_quantized
              THEN [offload |-> self_offload, err |-> "ValueError"]
              ELSE [offload |-> "True", err |-> "none"]
         ELSE [offload |-> self_offload, err |-> "none"]

\* Mutant: the flag is set before the pre-quantized test
ValidateEnvironmentResult_set_first(backend, device_map, self_offload) ==
    IF backend # "ok" THEN [offload |-> self_offload, err |-> "ImportError"]
    ELSE IF device_map.kind = "dict"
            /\ ("cpu" \in Values(device_map.map) \/ "disk" \in Values(device_map.map))
         THEN IF pre_quantized
              THEN [offload |-> "True", err |-> "ValueError"]
              ELSE [offload |-> "True", err |-> "none"]
         ELSE [offload |-> "False", err |-> "none"]

\* The body of validate_environment: the offload flag and the exception it ends with
ValidateEnvironmentResult(backend, device_map, self_offload) ==
    IF backend = "missing" THEN [offload |-> self_offload, err |-> "ImportError"]
    ELSE IF backend = "old" THEN [offload |-> self_offload, err |-> "ImportError"]
    ELSE IF device_map.kind = "dict"
            /\ ("cpu" \in Values(device_map.map) \/ "disk" \in Values(device_map.map))
         THEN IF pre_quantized
              THEN [offload |-> "False", err |-> "ValueError"]
              ELSE [offload |-> "True", err |-> "none"]
         ELSE [offload |-> "False", err |-> "none"]

ValidateEnvironment ==
    \E backend \in Backends, device_map \in DeviceMaps :
        LET r == ValidateEnvironmentResult(backend, device_map, offload) IN
        /\ offload' = r.offload
        /\ op' = "validate_environment"
        /\ args' = [backend |-> backend, device_map |-> device_map, self_offload |-> offload]
        /\ ret' = "None"
        /\ err' = r.err
        /\ effects' = <<>>
        /\ UNCHANGED <<pre_quantized, quantization_config, init_modules_to_not_convert,
                       modules_to_not_convert, model>>

----------------------------------------------------------------------------
(* check_if_quantized_param *)

Kinds == {"Module", "QuantInputBase", "TensorQuantizer", "SequentialQuantizer",
          "BaseQuantizedTensor"}

\* A model is a tree of modules: node 1 is the root, parent[i] < i, and each
\* module has a type and, when it is a TensorQuantizer, its _dequantize flag.
Nodes(m) == 1..m.n

\* the type of a module and its _dequantize flag, which only a TensorQuantizer carries
NodeTypes ==
    {[kind |-> k, dequantize |-> FALSE] : k \in Kinds}
    \cup {[kind |-> "TensorQuantizer", dequantize |-> TRUE]}

Parents(n) == {q \in [1..n -> 0..(n - 1)] : \A i \in 1..n : q[i] < i /\ (q[i] = 0 <=> i = 1)}

ModelTrees ==
    UNION {
        {[n |-> n, parent |-> p,
          kind |-> [i \in 1..n |-> t[i].kind],
          dequantize |-> [i \in 1..n |-> t[i].dequantize]] :
            p \in Parents(n), t \in [1..n -> NodeTypes]}
        : n \in 1..MaxNodes}

Children(m, i) == {j \in Nodes(m) : m.parent[j] = i}

\* the dotted path of a module: the names of the modules from the root down
RECURSIVE PathTo(_, _)
PathTo(m, i) == IF m.parent[i] = 0 THEN <<>> ELSE Append(PathTo(m, m.parent[i]), i)

\* module.modules(): the module itself and every module nested in it
RECURSIVE IsNestedIn(_, _, _)
IsNestedIn(m, j, i) ==
    IF j = i THEN TRUE
    ELSE IF m.parent[j] = 0 THEN FALSE
    ELSE IsNestedIn(m, m.parent[j], i)

Modules(m, i) == {j \in Nodes(m) : IsNestedIn(m, j, i)}

\* get_module_from_name(model, param_name): split at the last dot, walk the
\* module path from the root
RECURSIVE Resolve(_, _, _)
Resolve(m, cur, path) ==
    IF path = <<>> THEN cur
    ELSE IF Head(path) \in Children(m, cur) THEN Resolve(m, Head(path), Tail(path))
    ELSE 0

get_module_from_name(m, param_name) ==
    [module |-> Resolve(m, 1, SubSeq(param_name, 1, Len(param_name) - 1)),
     tensor_name |-> param_name[Len(param_name)]]

\* Mutant: only the module and its direct children are looked at
is_param_quantized_shallow(m, module) ==
    \E _module \in {module} \cup Children(m, module) :
        \/ m.kind[_module] = "TensorQuantizer" /\ ~m.dequantize[_module]
        \/ /\ m.kind[_module] = "SequentialQuantizer"
           /\ \E q \in Children(m, _module) :
                  m.kind[q] = "TensorQuantizer" /\ ~m.dequantize[q]

\* the nested helper is_param_quantized(module)
is_param_quantized(m, module) ==
    \E _module \in Modules(m, module) :
        \/ m.kind[_module] = "TensorQuantizer" /\ ~m.dequantize[_module]
        \/ /\ m.kind[_module] = "SequentialQuantizer"
           /\ \E q \in Children(m, _module) :
                  m.kind[q] = "TensorQuantizer" /\ ~m.dequantize[q]

\* Mutant: the test on the tensor name (line 91) is missing
CheckIfQuantizedParamResult_any_name(m, param_name) ==
    LET r == get_module_from_name(m, param_name) IN
    IF pre_quantized /\ m.kind[r.module] = "BaseQuantizedTensor" THEN TRUE
    ELSE IF m.kind[r.module] = "QuantInputBase"
         THEN \E _module \in Modules(m, r.module) :
                  m.kind[_module] = "TensorQuantizer" /\ ~m.dequantize[_module]
         ELSE FALSE

\* the value check_if_quantized_param returns
CheckIfQuantizedParamResult(m, param_name) ==
    LET r == get_module_from_name(m, param_name) IN
    IF pre_quantized /\ m.kind[r.module] = "BaseQuantizedTensor" THEN TRUE
    ELSE IF m.kind[r.module] = "QuantInputBase" /\ StrContains(S_weight, r.tensor_name)
         THEN is_param_quantized(m, r.module)
         ELSE FALSE

CheckIfQuantizedParam ==
    \E module \in Nodes(model), leaf \in LeafNames :
        LET param_name == Append(PathTo(model, module), leaf) IN
        /\ op' = "check_if_quantized_param"
        /\ args' = [param_name |-> param_name]
        /\ ret' = CheckIfQuantizedParamResult(model, param_name)
        /\ err' = "none"
        /\ effects' = <<>>
        /\ UNCHANGED <<pre_quantized, quantization_config, init_modules_to_not_convert,
                       offload, modules_to_not_convert, model>>

----------------------------------------------------------------------------
(* adjust_max_memory, adjust_target_dtype, update_torch_dtype *)

\* val * 0.90: a float result is held in hundredths, so 100 * 0.90 is 9000
ScalePercent == 90
MemValues == {7, 100}
Devices == {"gpu0", "cpu"}
MaxMemories == UNION {[K -> MemValues] : K \in SUBSET Devices}

\* Mutant: the values are scaled in the caller's mapping
AdjustMaxMemoryResult_in_place(max_memory) ==
    [ret |-> [key \in DOMAIN max_memory |-> max_memory[key] * ScalePercent],
     max_memory |-> [key \in DOMAIN max_memory |-> max_memory[key] * ScalePercent]]

\* the mapping returned, and the caller's mapping as the call leaves it
AdjustMaxMemoryResult(max_memory) ==
    [ret |-> [key \in DOMAIN max_memory |-> max_memory[key] * ScalePercent],
     max_memory |-> max_memory]

AdjustMaxMemory ==
    \E max_memory \in MaxMemories :
        LET r == AdjustMaxMemoryResult(max_memory) IN
        /\ op' = "adjust_max_memory"
        /\ args' = [max_memory |-> max_memory, max_memory_after |-> r.max_memory]
        /\ ret' = r.ret
        /\ err' = "none"
        /\ effects' = <<>>
        /\ UNCHANGED <<pre_quantized, quantization_config, init_modules_to_not_convert,
                       offload, modules_to_not_convert, model>>

Dtypes == {"float32", "float16", "bfloat16", "float8_e4m3fn"}

\* Mutant: the override is applied to every quant type but FP8
AdjustTargetDtypeResult_inverted(target_dtype) ==
    IF quantization_config.quant_type # "FP8" THEN "float8_e4m3fn" ELSE target_dtype

AdjustTargetDtypeResult(target_dtype) ==
    IF quantization_config.quant_type = "FP8" THEN "float8_e4m3fn" ELSE target_dtype

AdjustTargetDtype ==
    \E target_dtype \in Dtypes :
        /\ op' = "adjust_target_dtype"
        /\ args' = [target_dtype |-> target_dtype]
        /\ ret' = AdjustTargetDtypeResult(target_dtype)
        /\ err' = "none"
        /\ effects' = <<>>
        /\ UNCHANGED <<pre_quantized, quantization_config, init_modules_to_not_convert,
                       offload, modules_to_not_convert, model>>

UpdateTorchDtypeResult(torch_dtype) ==
    IF torch_dtype = "None" THEN "float32" ELSE torch_dtype

UpdateTorchDtype ==
    \E torch_dtype \in Dtypes \cup {"None"} :
        /\ op' = "update_torch_dtype"
        /\ args' = [torch_dtype |-> torch_dtype]
        /\ ret' = UpdateTorchDtypeResult(torch_dtype)
        /\ err' = "none"
        /\ effects' = IF torch_dtype = "None" THEN <<"logger.info">> ELSE <<>>
        /\ UNCHANGED <<pre_quantized, quantization_config, init_modules_to_not_convert,
                       offload, modules_to_not_convert, model>>

----------------------------------------------------------------------------
(* _process_model_before_weight_loading, _process_model_after_weight_loading *)

Names == {"proj_out", "norm"}

SeqsUpTo(S, n) == UNION {[1..k -> S] : k \in 0..n}

\* quantization_config.get_config_from_quant_type()
get_config_from_quant_type(config) == [algorithm |-> config.algorithm]

\* Mutant: a value that is no list is dropped instead of wrapped
Normalize_drop(c) == IF c.kind = "list" THEN c.val ELSE <<>>

\* the isinstance(..., list) test and the wrapping that follows it
Normalize(c) == IF c.kind = "list" THEN c.val ELSE <<c.val>>

\* the list self.modules_to_not_convert names
SelfModulesToNotConvert ==
    IF modules_to_not_convert.ref = "config"
    THEN quantization_config.modules_to_not_convert.val
    ELSE modules_to_not_convert.own

\* Lines 142-147: when the configuration holds a list, the attribute is that
\* very list and extend() grows it in place; otherwise the attribute is a
\* fresh one-element list.
ProcessExclusions(c, keep_in_fp32_modules) ==
    IF c.kind = "list"
    THEN [self |-> [ref |-> "config", own |-> <<>>],
          config |-> [kind |-> "list", val |-> Normalize(c) \o keep_in_fp32_modules]]
    ELSE [self |-> [ref |-> "own", own |-> Normalize(c) \o keep_in_fp32_modules],
          config |-> c]

ProcessModelBeforeWeightLoading ==
    \E keep_in_fp32_modules \in SeqsUpTo(Names, MaxKeep) :
        LET c == quantization_config.modules_to_not_convert
            r == ProcessExclusions(c, keep_in_fp32_modules)
        IN
        /\ Len(Normalize(c)) + Len(keep_in_fp32_modules) <= MaxLen
        /\ modules_to_not_convert' = r.self
        /\ quantization_config' = [quantization_config EXCEPT !.modules_to_not_convert = r.config]
        /\ op' = "_process_model_before_weight_loading"
        /\ args' = [keep_in_fp32_modules |-> keep_in_fp32_modules, config_before |-> c]
        /\ ret' = "None"
        /\ err' = "none"
        /\ effects' = <<"_replace_with_modelopt_layers", "model.config.quantization_config=">>
        /\ UNCHANGED <<pre_quantized, init_modules_to_not_convert, offload, model>>

ProcessModelAfterWeightLoading ==
    /\ op' = "_process_model_after_weight_loading"
    /\ args' = <<>>
    /\ ret' = "model"
    /\ err' = "none"
    /\ effects' = <<>>
    /\ UNCHANGED <<pre_quantized, quantization_config, init_modules_to_not_convert,
                   offload, modules_to_not_convert, model>>

----------------------------------------------------------------------------
(* create_quantized_param *)

Effect(fn, on, name, value, device, opt) ==
    [fn |-> fn, on |-> on, name |-> name, value |-> value, device |-> device, opt |-> opt]

\* kwargs.get("dtype", torch.float32)
DtypeKwarg(dtype_kw) == IF dtype_kw = "absent" THEN "float32" ELSE dtype_kw

\* Mutant: calibration runs before the tensor is placed
CreateQuantizedParamEffects_swapped(m, param_value, param_name, target_device, dtype_kw, fails) ==
    LET r == get_module_from_name(m, param_name)
        dtype == DtypeKwarg(dtype_kw)
        place == Effect("set_module_tensor_to_device", 1, param_name, param_value,
                        target_device, dtype)
        calibrate == Effect("mtq.calibrate", r.module, <<>>, "-", "-",
                            quantization_config.algorithm)
        nograd == Effect("requires_grad", r.module, S_weight, "False", "-", "-")
    IN
    IF pre_quantized
    THEN <<Effect("setattr", r.module, r.tensor_name, param_value, "-", "-")>>
    ELSE IF fails = "mtq.calibrate" THEN <<>>
    ELSE IF fails = "set_module_tensor_to_device" THEN <<calibrate>>
    ELSE <<calibrate, place, nograd>>

\* The calls create_quantized_param makes, in order. fails names the
\* collaborator call that raises ("none" when every call returns).
CreateQuantizedParamEffects(m, param_value, param_name, target_device, dtype_kw, fails) ==
    LET r == get_module_from_name(m, param_name)
        dtype == DtypeKwarg(dtype_kw)
        config == get_config_from_quant_type(quantization_config)
        place == Effect("set_module_tensor_to_device", 1, param_name, param_value,
                        target_device, dtype)
        calibrate == Effect("mtq.calibrate", r.module, <<>>, "-", "-", config.algorithm)
        nograd == Effect("requires_grad", r.module, S_weight, "False", "-", "-")
    IN
    IF pre_quantized
    THEN <<Effect("setattr", r.module, r.tensor_name, param_value, "-", "-")>>
    ELSE IF fails = "set_module_tensor_to_device" THEN <<>>
    ELSE IF fails = "mtq.calibrate" THEN <<place>>
    ELSE <<place, calibrate, nograd>>

Failures == {"none", "set_module_tensor_to_device", "mtq.calibrate"}

CreateQuantizedParam ==
    \E module \in Nodes(model), leaf \in {S_weight, S_bias},
       dtype_kw \in {"absent", "float16"}, fails \in Failures :
        LET param_name == Append(PathTo(model, module), leaf) IN
        /\ op' = "create_quantized_param"
        /\ args' = [param_name |-> param_name, param_value |-> "tensor",
                    target_device |-> "cuda:0", dtype_kw |-> dtype_kw]
        /\ ret' = "None"
        /\ err' = IF pre_quantized THEN "none" ELSE fails
        /\ effects' = CreateQuantizedParamEffects(model, "tensor", param_name, "cuda:0",
                                                  dtype_kw, fails)
        /\ UNCHANGED <<pre_quantized, quantization_config, init_modules_to_not_convert,
                       offload, modules_to_not_convert, model>>

----------------------------------------------------------------------------
(* Initial state and specifications *)

\* the quant types configured, each with the algorithm its configuration names
QuantConfigs == {<<"FP8", "max">>, <<"INT8", "max">>, <<"NF4", "awq_lite">>}

\* modules_to_not_convert as configured: None, one name, or a list of names
ConfigExclusions ==
    {[kind |-> "none", val |-> "None"]}
    \cup {[kind |-> "str", val |-> "norm"]}
    \cup {[kind |-> "list", val |-> l] : l \in {<<>>, <<"norm">>}}

FixedModel ==
    [n |-> 3,
     parent |-> <<0, 1, 2>>,
     kind |-> <<"Module", "QuantInputBase", "TensorQuantizer">>,
     dequantize |-> <<FALSE, FALSE, FALSE>>]

Init ==
    /\ pre_quantized \in BOOLEAN
    /\ quantization_config \in
          {[quant_type |-> q[1], algorithm |-> q[2], modules_to_not_convert |-> x] :
              q \in QuantConfigs, x \in ConfigExclusions}
    /\ init_modules_to_not_convert = quantization_config.modules_to_not_convert
    /\ offload = "unset"
    /\ modules_to_not_convert = [ref |-> "unset", own |-> <<>>]
    /\ model = FixedModel
    /\ op = "__init__"
    /\ args = <<>>
    /\ ret = "None"
    /\ err = "none"
    /\ effects = <<>>

Next ==
    \/ ValidateEnvironment
    \/ ProcessModelBeforeWeightLoading
    \/ CheckIfQuantizedParam
    \/ CreateQuantizedParam
    \/ ProcessModelAfterWeightLoading
    \/ AdjustMaxMemory
    \/ AdjustTargetDtype
    \/ UpdateTorchDtype

Spec == Init /\ [][Next]_vars

\* The per-parameter check alone, over every model tree within the bounds
InitCheck ==
    /\ pre_quantized \in BOOLEAN
    /\ quantization_config =
          [quant_type |-> "FP8", algorithm |-> "max",
           modules_to_not_convert |-> [kind |-> "none", val |-> "None"]]
    /\ init_modules_to_not_convert = quantization_config.modules_to_not_convert
    /\ offload = "unset"
    /\ modules_to_not_convert = [ref |-> "unset", own |-> <<>>]
    /\ model \in ModelTrees
    /\ op = "__init__"
    /\ args = <<>>
    /\ ret = "None"
    /\ err = "none"
    /\ effects = <<>>

NextCheck ==
    \/ CheckIfQuantizedParam

SpecCheck == InitCheck /\ [][NextCheck]_vars

----------------------------------------------------------------------------
(* Properties *)

\* a device map with at least one "cpu" or "disk" value
RequestsOffload(device_map) ==
    /\ device_map.kind = "dict"
    /\ \E k \in DOMAIN device_map.map : device_map.map[k] \in {"cpu", "disk"}

ValidatedWith(backend) == op = "validate_environment" /\ args.backend = backend

\* C1: a validate_environment call (backend present and recent enough) whose
\* device map has a "cpu" or "disk" value succeeds with the offload flag true
\* when the adapter is not pre-quantized, and raises ValueError when it is.
C1_OffloadOrConfigurationError ==
    (ValidatedWith("ok") /\ RequestsOffload(args.device_map)) =>
        IF pre_quantized THEN err = "ValueError"
        ELSE err = "none" /\ offload = "True"

\* a "disk" entry beside an accelerator entry switches offload on
C1_Witness ==
    /\ ValidatedWith("ok")
    /\ ~pre_quantized
    /\ args.device_map.kind = "dict"
    /\ DOMAIN args.device_map.map = 1..2
    /\ args.device_map.map[1] = "cuda:0"
    /\ args.device_map.map[2] = "disk"
    /\ offload = "True"
    /\ err = "none"

\* C2: a validate_environment call (backend present and recent enough) whose
\* device map holds accelerator targets only leaves the offload flag false,
\* whatever the pre-quantized flag and whatever the flag was before the call.
C2_AcceleratorOnlyResolvesFalse ==
    (/\ ValidatedWith("ok")
     /\ args.device_map.kind = "dict"
     /\ ~RequestsOffload(args.device_map)) =>
        offload = "False" /\ err = "none"

\* an earlier call had left the flag true
C2_Witness ==
    /\ ValidatedWith("ok")
    /\ args.device_map.kind = "dict"
    /\ DOMAIN args.device_map.map = 1..2
    /\ ~RequestsOffload(args.device_map)
    /\ args.self_offload = "True"
    /\ offload = "False"

\* C3: the adapter is never both pre-quantized and holding offload = true.
C3_NeverPreQuantizedAndOffload == ~(pre_quantized /\ offload = "True")

\* the rejected call has happened on a pre-quantized adapter
C3_Witness ==
    /\ pre_quantized
    /\ op = "validate_environment"
    /\ err = "ValueError"
    /\ RequestsOffload(args.device_map)
    /\ offload = "False"

Checked == op = "check_if_quantized_param"

\* the leaf attribute name and the owning module of a dotted parameter path
LeafOf(param_name) == param_name[Len(param_name)]
OwnerOf(param_name) == IF Len(param_name) = 1 THEN 1 ELSE param_name[Len(param_name) - 1]

\* module j lies in the tree under module i (i included)
RECURSIVE Under(_, _, _)
Under(m, j, i) == j = i \/ (j > i /\ m.parent[j] # 0 /\ Under(m, m.parent[j], i))

\* some quantizer in the module's nested tree is not in dequantize mode
ActivelyQuantizing(m, i) ==
    \E j \in 1..m.n : Under(m, j, i) /\ m.kind[j] = "TensorQuantizer" /\ ~m.dequantize[j]

\* C4 as stated: not pre-quantized and leaf name other than "weight" gives false.
C4_Original ==
    (Checked /\ ~pre_quantized /\ LeafOf(args.param_name) # S_weight) => ret = FALSE

\* C4 as amended: when the adapter is not pre-quantized, check_if_quantized_param
\* returns false for every parameter whose leaf name does not contain "weight".
C4_FalseWithoutWeightInName ==
    (Checked /\ ~pre_quantized /\ ~StrContains(S_weight, LeafOf(args.param_name))) =>
        ret = FALSE

\* the bias of a quantization-capable module with an active quantizer
C4_Witness ==
    /\ Checked
    /\ ~pre_quantized
    /\ LeafOf(args.param_name) = S_bias
    /\ model.kind[OwnerOf(args.param_name)] = "QuantInputBase"
    /\ ActivelyQuantizing(model, OwnerOf(args.param_name))
    /\ ret = FALSE

\* C5: check_if_quantized_param returns true exactly when (a) the adapter is
\* pre-quantized and the resolved module is a quantized-tensor container, or
\* (b) the resolved module is quantization-capable, the leaf name denotes a
\* weight (contains "weight") and some quantizer in its nested module tree is
\* not in dequantize mode.
C5_TrueExactlyWhen ==
    Checked =>
        (ret <=>
            LET owner == OwnerOf(args.param_name) IN
            \/ pre_quantized /\ model.kind[owner] = "BaseQuantizedTensor"
            \/ /\ model.kind[owner] = "QuantInputBase"
               /\ StrContains(S_weight, LeafOf(args.param_name))
               /\ ActivelyQuantizing(model, owner))

\* the only active quantizer sits two levels below the resolved module
C5_Witness ==
    /\ Checked
    /\ ~pre_quantized
    /\ model.n = 3
    /\ OwnerOf(args.param_name) = 1
    /\ LeafOf(args.param_name) = S_weight
    /\ model.kind = <<"QuantInputBase", "Module", "TensorQuantizer">>
    /\ model.parent = <<0, 1, 2>>
    /\ ~model.dequantize[3]
    /\ ret = TRUE

AdjustedDtype == op = "adjust_target_dtype"

\* C6 as stated: the result is the 8-bit float type iff the quant type is "FP8",
\* and any other quant type returns the input unchanged.
C6_Original ==
    AdjustedDtype =>
        /\ (ret = "float8_e4m3fn" <=> quantization_config.quant_type = "FP8")
        /\ (quantization_config.quant_type # "FP8" => ret = args.target_dtype)

\* C6 as amended: adjust_target_dtype returns the 8-bit float type when the
\* quant type is "FP8" and its input unchanged otherwise, so the result is the
\* 8-bit float type iff the quant type is "FP8" or the input already was it.
C6_Fp8OverrideElseUnchanged ==
    AdjustedDtype =>
        /\ (quantization_config.quant_type = "FP8" => ret = "float8_e4m3fn")
        /\ (quantization_config.quant_type # "FP8" => ret = args.target_dtype)
        /\ (ret = "float8_e4m3fn" <=>
               (quantization_config.quant_type = "FP8" \/ args.target_dtype = "float8_e4m3fn"))

\* an 8-bit float input under another quant type comes back as it was
C6_Witness ==
    /\ AdjustedDtype
    /\ quantization_config.quant_type = "INT8"
    /\ args.target_dtype = "float8_e4m3fn"
    /\ ret = "float8_e4m3fn"

C8_ConfigurationNeverMutated ==
    quantization_config.modules_to_not_convert = init_modules_to_not_convert

ProcessedBefore == op = "_process_model_before_weight_loading"

\* the configured exclusions as a sequence
AsSequence(c) == IF c.kind = "list" THEN c.val ELSE <<c.val>>

Created == op = "create_quantized_param"

Fns(es) == [i \in 1..Len(es) |-> es[i].fn]

IsPrefix(a, b) == Len(a) <= Len(b) /\ a = SubSeq(b, 1, Len(a))

QuantizeSteps == <<"set_module_tensor_to_device", "mtq.calibrate", "requires_grad">>

\* C10: create_quantized_param takes one of two branches. Pre-quantized: it
\* only assigns the value onto the resolved attribute. Otherwise: it places the
\* tensor (dtype defaulting to float32), then calibrates the owning module with
\* the configured algorithm, then clears requires_grad on its weight, never
\* assigns the raw value, and stops at the first collaborator call that raises.
C10_TwoExclusiveBranches ==
    Created =>
        IF pre_quantized
        THEN /\ Fns(effects) = <<"setattr">>
             /\ effects[1].on = OwnerOf(args.param_name)
             /\ effects[1].name = LeafOf(args.param_name)
             /\ effects[1].value = args.param_value
        ELSE /\ IsPrefix(Fns(effects), QuantizeSteps)
             /\ err = "none" => Fns(effects) = QuantizeSteps
             /\ Len(effects) >= 1 =>
                   /\ effects[1].name = args.param_name
                   /\ effects[1].value = args.param_value
                   /\ effects[1].device = args.target_device
                   /\ effects[1].opt = (IF args.dtype_kw = "absent" THEN "float32"
                                        ELSE args.dtype_kw)
             /\ Len(effects) >= 2 =>
                   /\ effects[2].on = OwnerOf(args.param_name)
                   /\ effects[2].opt = quantization_config.algorithm
             /\ Len(effects) >= 3 =>
                   /\ effects[3].on = OwnerOf(args.param_name)
                   /\ effects[3].name = S_weight
                   /\ effects[3].value = "False"

\* a fresh weight, no dtype given, every collaborator call returning
C10_Witness ==
    /\ Created
    /\ ~pre_quantized
    /\ err = "none"
    /\ args.dtype_kw = "absent"
    /\ quantization_config.algorithm = "awq_lite"
    /\ Fns(effects) = QuantizeSteps
    /\ effects[1].opt = "float32"

====
